---- MODULE Spec2Model ----
(***************************************************************************)
(* A model of the SEC resolution engine (src/resolver.py), of the metric    *)
(* extractor and listings reader of its provider client                    *)
(* (src/resolvers/sec/sec_client.py), of the listings reader of the        *)
(* OpenDART client (src/resolvers/dart/dart_client.py), of the poll loop   *)
(* (src/monitor.py) and of the two clients' rate limit.                    *)
(*                                                                         *)
(* Python values are modelled as follows.                                  *)
(*   - None, for an accession, is the string NoAccession.                  *)
(*   - A Python str that the code orders (an observation's "end") is a     *)
(*     sequence of character codes, ordered as Python orders strings.      *)
(*   - A JSON amount ("val") is a record [k, n]: k says which JSON value   *)
(*     it is (an integer n, a numeric string spelling n, a non-numeric     *)
(*     string, null), so that float() can accept or reject it.             *)
(*   - A JSON object with optional keys carries the set of keys it has.    *)
(*   - The payload keys form, filed, fy and fp of get_latest_metric are    *)
(*     copied through by the code and read by no decision; they are left   *)
(*     out of the records.                                                 *)
(***************************************************************************)
EXTENDS Integers, Sequences, FiniteSets, TLC

VARIABLES
    last_checked_accession, \* MarketResolver.last_checked_accession
    tags,                   \* MarketResolver.tags
    estimate,               \* MarketResolver.estimate
    call,                   \* what the last check_for_resolution call read and did
    prev,                   \* the exit of the call before it, and its newest filing
    records,                \* accessions of the records returned so far, in order
    submissions_request,    \* how the listings request of the last call ended
    mfacts,                 \* a company-facts document handed to get_latest_metric
    mtags,                  \* the tag list handed to get_latest_metric
    mresult,                \* what get_latest_metric returned for them
    client,                 \* which provider client a listing is asked of
    upstream,               \* the filings the provider answers with, in its order
    lforms,                 \* the form filter handed to get_recent_filings
    listing,                \* what get_recent_filings returned for them
    loop_pc,                \* where the poll loop of monitor.py stands
    settled,                \* what the provider answers from some poll onward
    produced,               \* the accessions a record was returned for
    slept,                  \* sleeps of the loop since check_for_resolution last ended
    now,                    \* time.time(), in ticks
    last_request_time,      \* the client's _last_request_time / _last_request_ts
    min_interval,           \* the client's _min_request_interval / _min_interval
    rl,                     \* where the thread stands in a rate-limited call
    other,                  \* where a second thread sharing the client stands
    issued,                 \* when the last two network calls were issued
    raw_amount,             \* a cell of a statement row handed to _parse_amount
    parsed,                 \* what _parse_amount returned for it
    request,                \* the arguments of OpenDartClient.get_latest_metric
    context,                \* what _infer_reporting_context returned
    search                  \* where the search of get_latest_metric stands

vars == <<last_checked_accession, tags, estimate, call, prev, records,
          submissions_request, mfacts, mtags, mresult, client, upstream, lforms,
          listing, loop_pc, settled, produced, slept, now, last_request_time, min_interval,
          rl, other, issued, raw_amount, parsed, request, context, search>>

engineVars == <<last_checked_accession, tags, estimate, call, prev, records,
                submissions_request>>
metricVars == <<mfacts, mtags, mresult>>
listingVars == <<client, upstream, lforms, listing>>
loopVars == <<loop_pc, settled, produced, slept>>
clockVars == <<now, last_request_time, min_interval, rl, other, issued>>
dartVars == <<raw_amount, parsed, request, context, search>>

-----------------------------------------------------------------------------
(* Bounds of the model *)

MaxObs == 2       \* observations in one company-facts document
MaxTags == 3      \* length of a candidate tag list
MaxVal == 2       \* largest amount
MaxFilings == 2   \* entries of one submissions document
MaxRecords == 3   \* records returned over one engine's life
MaxUpstream == 3  \* filings in one provider answer
MaxForms == 2     \* length of a form filter
MaxTime == 12     \* last tick of the clock
MaxText == 3      \* characters typed into one amount cell
MaxRows == 2      \* rows of one statement table
MaxWords == 2     \* words of one report name

-----------------------------------------------------------------------------
(* Values *)

NoAccession == "None"

TagNames == {"Revenues", "SalesRevenueNet", "ProfitLoss"}

\* "2023-09-30" and "2023-12-31" as digit sequences
End_2023_09_30 == <<2, 0, 2, 3, 0, 9, 3, 0>>
End_2023_12_31 == <<2, 0, 2, 3, 1, 2, 3, 1>>
Ends == {End_2023_09_30, End_2023_12_31}

IntVal(n) == [k |-> "int", n |-> n]
NumStrVal(n) == [k |-> "numstr", n |-> n]
BadStrVal == [k |-> "badstr", n |-> 0]
NullVal == [k |-> "null", n |-> 0]
NoVal == [k |-> "missing", n |-> 0]

RequiredKeys == {"val", "end", "accn"}

\* One observation of a units array: a JSON object and the keys it has.
Obs(keys, val, end, accn) ==
    [keys |-> keys,
     val |-> IF "val" \in keys THEN val ELSE NoVal,
     end |-> IF "end" \in keys THEN end ELSE <<>>,
     accn |-> IF "accn" \in keys THEN accn ELSE NoAccession]

\* Python's < on str: code points compared left to right, a proper prefix first.
RECURSIVE StrLess(_, _)
StrLess(a, b) ==
    IF b = <<>> THEN FALSE
    ELSE IF a = <<>> THEN TRUE
    ELSE IF Head(a) < Head(b) THEN TRUE
    ELSE IF Head(a) > Head(b) THEN FALSE
    ELSE StrLess(Tail(a), Tail(b))

-----------------------------------------------------------------------------
(* SECClient.get_latest_metric *)

NoMetric == [found |-> FALSE, tag |-> "", value |-> NoVal, end |-> <<>>,
             accession |-> NoAccession]

\* us_gaap.get(tag, {}).get("units", {}).get("USD", [])
usd_facts(us_gaap, tag) ==
    IF tag \in DOMAIN us_gaap /\ us_gaap[tag].kind = "usd"
    THEN us_gaap[tag].obs
    ELSE <<>>

\* IsValidFact asking for the amount alone.
IsValidFactValOnly(f) == "val" \in f.keys

\* [f for f in usd_facts if all(k in f for k in ["val", "end", "accn"])]
IsValidFact(f) == RequiredKeys \subseteq f.keys

valid_facts(facts_list) == SelectSeq(facts_list, IsValidFact)

\* InsertDesc without reverse=True: the list is kept in ascending order.
RECURSIVE InsertAsc(_, _)
InsertAsc(sorted, x) ==
    IF sorted = <<>> THEN <<x>>
    ELSE IF StrLess(x.end, Head(sorted).end)
         THEN <<x>> \o sorted
         ELSE <<Head(sorted)>> \o InsertAsc(Tail(sorted), x)

\* Where x goes in a list kept in descending order of "end": behind every
\* element whose key is not smaller, so that equal keys keep their order.
RECURSIVE InsertDesc(_, _)
InsertDesc(sorted, x) ==
    IF sorted = <<>> THEN <<x>>
    ELSE IF StrLess(Head(sorted).end, x.end)
         THEN <<x>> \o sorted
         ELSE <<Head(sorted)>> \o InsertDesc(Tail(sorted), x)

\* sorted(valid_facts, key=lambda x: x["end"], reverse=True): a stable sort
RECURSIVE SortedByEndDesc(_)
SortedByEndDesc(s) ==
    IF s = <<>> THEN <<>>
    ELSE InsertDesc(SortedByEndDesc(SubSeq(s, 1, Len(s) - 1)), s[Len(s)])

MetricOf(tag, latest) ==
    [found |-> TRUE, tag |-> tag, value |-> latest.val, end |-> latest.end,
     accession |-> latest.accn]

\* the loop without its early return: a later tag's match replaces an earlier one
RECURSIVE TryTagsLastWins(_, _, _)
TryTagsLastWins(us_gaap, tagList, i) ==
    IF i > Len(tagList) THEN NoMetric
    ELSE LET usd == usd_facts(us_gaap, tagList[i])
             valid == valid_facts(usd)
             later == TryTagsLastWins(us_gaap, tagList, i + 1)
         IN IF later.found THEN later
            ELSE IF usd # <<>> /\ valid # <<>>
            THEN MetricOf(tagList[i], Head(SortedByEndDesc(valid)))
            ELSE NoMetric

\* the loop giving up after the tag at position i
TryFirstTagOnly(us_gaap, tagList, i) ==
    IF i > Len(tagList) THEN NoMetric
    ELSE LET usd == usd_facts(us_gaap, tagList[i])
             valid == valid_facts(usd)
         IN IF usd # <<>> /\ valid # <<>>
            THEN MetricOf(tagList[i], Head(SortedByEndDesc(valid)))
            ELSE NoMetric

\* the loop "for tag in tags" from position i on
RECURSIVE TryTags(_, _, _)
TryTags(us_gaap, tagList, i) ==
    IF i > Len(tagList) THEN NoMetric
    ELSE LET usd == usd_facts(us_gaap, tagList[i])
             valid == valid_facts(usd)
         IN IF usd # <<>> /\ valid # <<>>
            THEN MetricOf(tagList[i], Head(SortedByEndDesc(valid)))
            ELSE TryTags(us_gaap, tagList, i + 1)

\* facts is None or {} ("not facts"), or has no "facts" key
FactsUnusable(facts) == facts.kind \in {"none", "empty", "nofacts"}

get_latest_metric(facts, tagList) ==
    IF FactsUnusable(facts) THEN NoMetric
    ELSE TryTags(facts.us_gaap, tagList, 1)

-----------------------------------------------------------------------------
(* Company-facts documents *)

EmptyGaap == [t \in {} |-> 0]

NoneFacts == [kind |-> "none", us_gaap |-> EmptyGaap]      \* the request failed
EmptyFacts == [kind |-> "empty", us_gaap |-> EmptyGaap]    \* the document {}
NoFactsKey == [kind |-> "nofacts", us_gaap |-> EmptyGaap]  \* no "facts" key
DocFacts(us_gaap) == [kind |-> "doc", us_gaap |-> us_gaap]

UsdNode(obs) == [kind |-> "usd", obs |-> obs]
NonUsdNode == [kind |-> "nousd", obs |-> <<>>]

\* every observation of the document, over all its tags
RECURSIVE ObsCount(_, _)
ObsCount(us_gaap, ts) ==
    IF ts = {} THEN 0
    ELSE LET t == CHOOSE x \in ts : TRUE
         IN Len(us_gaap[t].obs) + ObsCount(us_gaap, ts \ {t})

\* the document with one more observation at the end of tag's USD array
WithObservation(us_gaap, tag, o) ==
    LET old == IF tag \in DOMAIN us_gaap THEN us_gaap[tag].obs ELSE <<>>
    IN [t \in DOMAIN us_gaap \cup {tag} |->
            IF t = tag THEN UsdNode(Append(old, o)) ELSE us_gaap[t]]

\* the document with tag reported in a unit other than USD only
WithNonUsdTag(us_gaap, tag) ==
    [t \in DOMAIN us_gaap \cup {tag} |->
        IF t = tag THEN NonUsdNode ELSE us_gaap[t]]

MetricAccession == "0001-23-000001"

MetricObs ==
    {Obs(RequiredKeys, IntVal(v), e, MetricAccession) : v \in 1..MaxVal, e \in Ends}
    \cup {Obs(RequiredKeys \ {k}, IntVal(1), End_2023_12_31, MetricAccession) :
             k \in RequiredKeys}

RECURSIVE SeqsUpTo(_, _)
SeqsUpTo(S, n) ==
    IF n = 0 THEN {<<>>}
    ELSE LET shorter == SeqsUpTo(S, n - 1)
         IN shorter \cup {Append(s, x) : s \in {t \in shorter : Len(t) = n - 1}, x \in S}

\* candidate tag lists: no tag named twice
TagLists ==
    {l \in SeqsUpTo(TagNames, MaxTags) : \A i, j \in DOMAIN l : i # j => l[i] # l[j]}

NotRun == [ran |-> FALSE, out |-> NoMetric]

-----------------------------------------------------------------------------
(* SECClient.get_recent_filings *)

TARGET_FORMS == {"10-Q", "10-K"}

NoSubmissions == [kind |-> "none", form |-> <<>>, accessionNumber |-> <<>>,
                  filingDate |-> <<>>]             \* get_submissions returned None
NoRecent == [kind |-> "norecent", form |-> <<>>, accessionNumber |-> <<>>,
             filingDate |-> <<>>]                  \* no "filings"/"recent" in it

Min3(a, b, c) == IF a <= b /\ a <= c THEN a ELSE IF b <= c THEN b ELSE c

\* ZipFilter reading the accession of the first entry for every entry.
RECURSIVE ZipFilterMisaligned(_, _, _, _, _)
ZipFilterMisaligned(form_list, accn_list, date_list, forms, i) ==
    IF i > Min3(Len(form_list), Len(accn_list), Len(date_list)) THEN <<>>
    ELSE LET rest == ZipFilterMisaligned(form_list, accn_list, date_list, forms, i + 1)
         IN IF form_list[i] \in forms
            THEN <<[form |-> form_list[i], accession |-> accn_list[1],
                    filing_date |-> date_list[i]]>> \o rest
            ELSE rest

\* zip(form_list, accn_list, date_list) filtered by "form in forms", from i on
RECURSIVE ZipFilter(_, _, _, _, _)
ZipFilter(form_list, accn_list, date_list, forms, i) ==
    IF i > Min3(Len(form_list), Len(accn_list), Len(date_list)) THEN <<>>
    ELSE LET rest == ZipFilter(form_list, accn_list, date_list, forms, i + 1)
         IN IF form_list[i] \in forms
            THEN <<[form |-> form_list[i], accession |-> accn_list[i],
                    filing_date |-> date_list[i]]>> \o rest
            ELSE rest

get_recent_filings(submissions, forms) ==
    IF submissions.kind \in {"none", "norecent"} THEN <<>>
    ELSE ZipFilter(submissions.form, submissions.accessionNumber,
                   submissions.filingDate, forms, 1)

-----------------------------------------------------------------------------
(* MarketResolver.check_for_resolution *)

\* float(x): the number, for an int and for a string that spells one
FloatOk(v) == v.k \in {"int", "numstr"}
FloatOf(v) == v.n

\* "YES" if actual_value >= self.estimate: equality resolves YES
OutcomeAtLeast(actual_value, est) == IF actual_value >= est THEN "YES" ELSE "NO"

\* outcome = "YES" if actual_value > self.estimate else "NO"
Outcome(actual_value, est) == IF actual_value > est THEN "YES" ELSE "NO"

\* the skip test left out: every listed filing counts as new
NeverProcessed(latest_filing, last) == FALSE

\* a fresh engine taking the newest filing for processed
AlreadyProcessedOrFresh(latest_filing, last) ==
    last = NoAccession \/ latest_filing.accession = last

\* latest_filing["accession"] == self.last_checked_accession
AlreadyProcessed(latest_filing, last) == latest_filing.accession = last

\* last_checked_accession assigned as soon as the filing is seen to be new
LastCheckedOnDetection(status, latest_filing, last) ==
    IF status \in {"no_filings", "not_new"} THEN last ELSE latest_filing.accession

\* last_checked_accession reset to None when nothing is listed
LastCheckedForgotten(status, latest_filing, last) ==
    IF status = "resolved" THEN latest_filing.accession
    ELSE IF status = "no_filings" THEN NoAccession
    ELSE last

\* self.last_checked_accession = latest_filing["accession"], the last statement
\* before the return; every earlier exit leaves the attribute alone
LastCheckedAfter(status, latest_filing, last) ==
    IF status = "resolved" THEN latest_filing.accession ELSE last

NoFiling == [form |-> "", accession |-> NoAccession, filing_date |-> <<>>]

NoResolution == [returned |-> FALSE, filing |-> NoFiling, tag |-> "", value |-> 0,
                 period_end |-> <<>>, estimate |-> 0, outcome |-> ""]

Unfetched == [kind |-> "unfetched", us_gaap |-> EmptyGaap]

\* the resolution dict of a call that reaches the return
ResolutionOf(latest_filing, metric_data, est) ==
    [returned |-> TRUE,
     filing |-> latest_filing,
     tag |-> metric_data.tag,
     value |-> FloatOf(metric_data.value),
     period_end |-> metric_data.end,
     estimate |-> est,
     outcome |-> Outcome(FloatOf(metric_data.value), est)]

\* Exit taking the last element of the listing for latest_filing
ExitLastListed(status, last, filings, facts, extracted, metric_data, est) ==
    LET latest_filing == IF filings = <<>> THEN NoFiling ELSE filings[Len(filings)]
    IN [status |-> status,
        before |-> last,
        filings |-> filings,
        facts |-> facts,
        extracted |-> extracted,
        metric |-> metric_data,
        result |-> IF status = "resolved"
                   THEN ResolutionOf(latest_filing, metric_data, est)
                   ELSE NoResolution,
        after |-> LastCheckedAfter(status, latest_filing, last)]

\* A call that ends at the exit `status`: what it read on the way (the
\* listing, the facts document if it was requested, the metric if the
\* extractor ran), what it returned and the attribute after it.
Exit(status, last, filings, facts, extracted, metric_data, est) ==
    LET latest_filing == IF filings = <<>> THEN NoFiling ELSE filings[1]
    IN [status |-> status,
        before |-> last,
        filings |-> filings,
        facts |-> facts,
        extracted |-> extracted,
        metric |-> metric_data,
        result |-> IF status = "resolved"
                   THEN ResolutionOf(latest_filing, metric_data, est)
                   ELSE NoResolution,
        after |-> LastCheckedAfter(status, latest_filing, last)]

\* One call, from the state before it, the listing get_recent_filings
\* returned and the answer of the company-facts request.
check_for_resolution(last, tagList, est, filings, facts) ==
    IF filings = <<>>
    THEN Exit("no_filings", last, filings, Unfetched, FALSE, NoMetric, est)
    ELSE IF AlreadyProcessed(filings[1], last)
    THEN Exit("not_new", last, filings, Unfetched, FALSE, NoMetric, est)
    ELSE IF facts.kind \in {"none", "empty"}
    THEN Exit("no_facts", last, filings, facts, FALSE, NoMetric, est)
    ELSE LET metric_data == get_latest_metric(facts, tagList)
         IN IF ~metric_data.found
            THEN Exit("no_metric", last, filings, facts, TRUE, metric_data, est)
            ELSE IF ~FloatOk(metric_data.value)
            THEN Exit("raised", last, filings, facts, TRUE, metric_data, est)
            ELSE Exit("resolved", last, filings, facts, TRUE, metric_data, est)

-----------------------------------------------------------------------------
(* What the two SEC endpoints can answer to one engine *)

Accession_X == "0001-23-000123"
Accession_Y == "0001-23-000456"
EngineAccessions == {Accession_X, Accession_Y}

FilingDate == <<2, 0, 2, 4, 0, 2, 0, 1>>   \* "2024-02-01"

ListedEntries ==
    {<<"10-Q", a>> : a \in EngineAccessions} \cup {<<"8-K", "0001-23-000789">>}

SubmissionsOf(entries) ==
    [kind |-> "doc",
     form |-> [i \in 1..Len(entries) |-> entries[i][1]],
     accessionNumber |-> [i \in 1..Len(entries) |-> entries[i][2]],
     filingDate |-> [i \in 1..Len(entries) |-> FilingDate]]

\* an accession number names one filing: no entry is listed twice
Submissions ==
    {NoSubmissions, NoRecent}
    \cup {SubmissionsOf(e) :
             e \in {l \in SeqsUpTo(ListedEntries, MaxFilings) :
                      \A i, j \in DOMAIN l : i # j => l[i] # l[j]}}

EngineTagLists == {<<"Revenues">>, <<"SalesRevenueNet", "Revenues">>}

\* amounts as the API may spell them: integers, a numeric string, "N/A", null
EngineVals ==
    {IntVal(v) : v \in 0..MaxVal} \cup {NumStrVal(MaxVal), BadStrVal, NullVal}

\* the listings get_recent_filings can return for them
Listings == {get_recent_filings(s, TARGET_FORMS) : s \in Submissions}

\* get_submissions returns None when requests raised (its except clause), and
\* the JSON document otherwise
RequestOf(submissions) == IF submissions.kind = "none" THEN "failed" ELSE "ok"

\* how the listings request can end, with the listing the engine is then handed
ListingAnswers ==
    {[request |-> RequestOf(s), filings |-> get_recent_filings(s, TARGET_FORMS)] :
        s \in Submissions}

\* observations attributed to an earlier filing or to the first listed one
EngineObs ==
    {Obs(RequiredKeys, v, End_2023_12_31, a) :
        v \in EngineVals, a \in {MetricAccession, Accession_X}}

\* a document whose only tag no engine asks for, and one with both tags
OtherTagFacts ==
    DocFacts(WithObservation(EmptyGaap, "ProfitLoss",
        Obs(RequiredKeys, IntVal(MaxVal), End_2023_12_31, Accession_X)))
TwoTagFacts ==
    DocFacts(WithObservation(
        WithObservation(EmptyGaap, "Revenues",
            Obs(RequiredKeys, IntVal(MaxVal), End_2023_12_31, Accession_X)),
        "SalesRevenueNet",
        Obs(RequiredKeys, IntVal(0), End_2023_09_30, Accession_X)))

EngineFacts ==
    {NoneFacts, EmptyFacts, NoFactsKey, DocFacts(EmptyGaap), OtherTagFacts, TwoTagFacts}
    \cup {DocFacts(WithObservation(EmptyGaap, "Revenues", o)) : o \in EngineObs}

-----------------------------------------------------------------------------
(* The engine *)

\* no document has been handed to get_latest_metric
MetricIdle ==
    /\ mfacts = NoneFacts
    /\ mtags = <<>>
    /\ mresult = NotRun

\* no listing has been asked of a client
ListingIdle ==
    /\ client = "sec"
    /\ upstream = <<>>
    /\ lforms = <<>>
    /\ listing = [ran |-> FALSE, out |-> <<>>]

NotSettled == [on |-> FALSE, newest |-> NoAccession, facts |-> NoneFacts]

\* no poll loop runs
LoopIdle ==
    /\ loop_pc = "check"
    /\ settled = NotSettled
    /\ produced = {}
    /\ slept = 0

NotLimiting == [pc |-> "idle", wake |-> 0]
NoneIssued == [n |-> 0, prev |-> 0, last |-> 0]

\* no client is asked for anything
ClockIdle ==
    /\ now = 0
    /\ last_request_time = 0
    /\ min_interval = 0
    /\ rl = NotLimiting
    /\ other = NotLimiting
    /\ issued = NoneIssued

NoAmount == [k |-> "none", n |-> 0, s |-> <<>>]
NotParsed == [ran |-> FALSE, out |-> NoAmount]
NoYear == 0
NoPeriod == ""
NoRequest == [account_names |-> <<>>, year |-> NoYear, period |-> NoPeriod]
NoContext == [year |-> NoYear, period |-> NoPeriod]
NoDartMetric == [found |-> FALSE, account_name |-> "", current_amount |-> NoAmount,
                 year |-> NoYear, period |-> NoPeriod, reprt_code |-> ""]
NoPayload == [found |-> FALSE, tag |-> "", value |-> NoAmount, fiscal_year |-> NoYear,
              fiscal_period |-> ""]
NotSearching == [pc |-> "idle", years |-> <<>>, periods |-> <<>>, yi |-> 1, pi |-> 1,
                 fetches |-> <<>>, statements |-> <<>>, metric |-> NoDartMetric,
                 out |-> NoPayload]

\* nothing is asked of the OpenDART metric interface
DartIdle ==
    /\ raw_amount = NoAmount
    /\ parsed = NotParsed
    /\ request = NoRequest
    /\ context = NoContext
    /\ search = NotSearching

InitCall == [status |-> "init", before |-> NoAccession, filings |-> <<>>,
             facts |-> Unfetched, extracted |-> FALSE, metric |-> NoMetric,
             result |-> NoResolution, after |-> NoAccession]

\* the newest filing a call saw, None when the listing was empty
Newest(c) == IF c.filings = <<>> THEN NoAccession ELSE c.filings[1].accession

InitPrev == [status |-> "init", newest |-> NoAccession]

\* MarketResolver.__init__
Init ==
    /\ last_checked_accession = NoAccession
    /\ tags \in EngineTagLists
    /\ estimate \in 1..MaxVal
    /\ call = InitCall
    /\ prev = InitPrev
    /\ records = <<>>
    /\ submissions_request = "none"
    /\ MetricIdle
    /\ ListingIdle
    /\ LoopIdle
    /\ ClockIdle
    /\ DartIdle

\* One poll: the loop of monitor.py calls check_for_resolution
CheckForResolution ==
    /\ Len(records) < MaxRecords
    /\ \E answer \in ListingAnswers, facts \in EngineFacts :
          LET c == check_for_resolution(last_checked_accession, tags, estimate,
                                        answer.filings, facts)
          IN /\ call' = c
             /\ submissions_request' = answer.request
             /\ prev' = [status |-> call.status, newest |-> Newest(call)]
             /\ last_checked_accession' = c.after
             /\ records' = IF c.result.returned
                           THEN Append(records, c.result.filing.accession)
                           ELSE records
    /\ UNCHANGED <<tags, estimate, metricVars, listingVars, loopVars, clockVars,
                   dartVars>>

Next == CheckForResolution

Spec == Init /\ [][Next]_vars

-----------------------------------------------------------------------------
(* Properties of the engine, under Spec *)

Fetched(c) == c.facts # Unfetched

\* the statuses of a call that returned None or raised after finding a new filing
FailedExits == {"no_facts", "no_metric", "raised"}

\* facts holds a valid USD observation of a candidate tag attributed to accn
OwnFactsPublished(facts, tagList, accn) ==
    /\ ~FactsUnusable(facts)
    /\ facts.kind = "doc"
    /\ \E i \in DOMAIN tagList :
          \E j \in DOMAIN usd_facts(facts.us_gaap, tagList[i]) :
              LET f == usd_facts(facts.us_gaap, tagList[i])[j]
              IN IsValidFact(f) /\ f.accn = accn

\* C1: over any sequence of calls, no accession appears in more than one
\* returned record.
C1_OneRecordPerAccession ==
    \A i, j \in DOMAIN records : i # j => records[i] # records[j]

\* C2: for every returned record, outcome is YES exactly when the extracted
\* metric value is strictly greater than the estimate, and NO otherwise;
\* there is no third outcome.
C2_OutcomeIsStrictComparison ==
    call.result.returned =>
        /\ call.result.outcome \in {"YES", "NO"}
        /\ (call.result.outcome = "YES") <=> (FloatOf(call.metric.value) > estimate)
        /\ call.result.value = FloatOf(call.metric.value)
        /\ call.result.estimate = estimate

C2_Witness_EqualResolvesNo ==
    /\ call.result.returned
    /\ FloatOf(call.metric.value) = estimate
    /\ call.result.outcome = "NO"

\* C3: a step changes last_checked_accession only when the call returns a
\* record, and then to that record's filing accession; a call that returns
\* None or raises leaves it as it was.
C3_StateChangesOnlyOnSuccess ==
    [][/\ call'.result.returned =>
            last_checked_accession' = call'.result.filing.accession
       /\ ~call'.result.returned =>
            last_checked_accession' = last_checked_accession]_vars

C3_Witness_FailedCallKeepsState ==
    /\ call.status \in FailedExits
    /\ call.before = Accession_X
    /\ Newest(call) = Accession_Y
    /\ last_checked_accession = Accession_X

\* C4: after a call that found Y new and ended in "facts unavailable" or
\* "metric not found", the state is what it was before that call, and the next
\* call that still sees Y as newest treats it as new: it requests the facts
\* again and, when it gets a document, runs the extractor again.
C4_RetryOnIncompleteData ==
    [][(/\ call.status \in {"no_facts", "no_metric"}
        /\ Newest(call') = Newest(call))
       => /\ last_checked_accession = call.before
          /\ call'.status \notin {"no_filings", "not_new"}
          /\ Fetched(call')
          /\ (call'.facts.kind \notin {"none", "empty"} => call'.extracted)]_vars

C4_Witness_RetrySucceeds ==
    /\ prev.status \in {"no_facts", "no_metric"}
    /\ prev.newest = Newest(call)
    /\ call.status = "resolved"

\* C5: a new newest filing F for which the facts document holds no valid
\* observation of a candidate tag attributed to F is not resolved and not
\* marked as resolved.
C5_UnpublishedFilingNotResolved ==
    (/\ call.status \in FailedExits \cup {"resolved"}
     /\ ~OwnFactsPublished(call.facts, tags, Newest(call)))
    => /\ ~call.result.returned
       /\ last_checked_accession # Newest(call)

\* C6: while last_checked_accession is X (so a record for X was returned
\* earlier), a call whose listing has X first returns None, requests no
\* facts and leaves the state at X.
C6_MonotonicResolution ==
    /\ [](last_checked_accession # NoAccession =>
            \E i \in DOMAIN records : records[i] = last_checked_accession)
    /\ [][(/\ last_checked_accession # NoAccession
           /\ Newest(call') = last_checked_accession)
          => /\ call'.status = "not_new"
             /\ ~call'.result.returned
             /\ ~Fetched(call')
             /\ ~call'.extracted
             /\ last_checked_accession' = last_checked_accession]_vars

C6_Witness_ResolvedFilingSkipped ==
    /\ call.status = "not_new"
    /\ prev.status = "resolved"
    /\ Newest(call) = Accession_X
    /\ records = <<Accession_X>>

\* C7, as claimed: of two calls in succession that see the same newest
\* filing, the second returns no record.
C7_SecondCallNeverResolves ==
    (/\ prev.status # "init"
     /\ prev.newest # NoAccession
     /\ prev.newest = Newest(call))
    => ~call.result.returned

\* C7, amended: of two calls in succession that see the same newest filing,
\* the second returns no record when the first returned one or found the
\* filing already processed; the second can return a record only after a
\* first call that ended in "facts unavailable", "metric not found" or an
\* exception.
C7_SecondCallResolvesOnlyAfterFailure ==
    (/\ prev.status # "init"
     /\ prev.newest # NoAccession
     /\ prev.newest = Newest(call))
    => /\ prev.status \in {"resolved", "not_new"} =>
            (~call.result.returned /\ call.status = "not_new")
       /\ call.result.returned => prev.status \in FailedExits

C7_Witness_SecondCallAfterSuccess ==
    /\ prev.status = "resolved"
    /\ prev.newest = Newest(call)
    /\ call.status = "not_new"
    /\ ~call.result.returned

\* C27: a call with a non-empty listing goes on to the facts request exactly
\* when last_checked_accession is None or differs from the accession of the
\* newest filing, and stops as "not new" otherwise; the first call of a fresh
\* engine with a non-empty listing always requests the facts.
C27_NoveltyIsPureComparison ==
    /\ (call.status # "init" /\ call.filings # <<>>) =>
          LET novel == call.before = NoAccession \/ Newest(call) # call.before
          IN /\ novel <=> Fetched(call)
             /\ novel <=> call.status # "not_new"
    /\ (prev.status = "init" /\ call.status # "init" /\ call.filings # <<>>) =>
          (call.before = NoAccession /\ Fetched(call))

C27_Witness_FirstPollFetchesFacts ==
    /\ prev.status = "init"
    /\ call.status = "no_metric"
    /\ call.before = NoAccession
    /\ call.filings # <<>>
    /\ Fetched(call)

\* C31: a returned record carries the form, accession and filing date of the
\* first element of the listing the same call obtained, and the call marks
\* that accession; every record added to the history is for the head of the
\* listing of the poll that added it, so an element that is only ever listed
\* behind the head gets no record.
C31_RecordIsAboutListingHead ==
    /\ [](call.result.returned =>
            /\ call.filings # <<>>
            /\ call.result.filing = call.filings[1]
            /\ call.after = call.filings[1].accession)
    /\ [][records' # records =>
            /\ call'.filings # <<>>
            /\ records' = Append(records, call'.filings[1].accession)]_vars
    /\ [][records' = records => ~call'.result.returned]_vars

\* two filings are listed, the record is for the first, and the second, never
\* at the head so far, has none
C31_Witness_SecondListedHasNoRecord ==
    /\ call.status = "resolved"
    /\ Len(call.filings) = 2
    /\ call.filings[1].accession # call.filings[2].accession
    /\ records = <<call.filings[1].accession>>
    /\ prev.status = "init"

\* C8: a call whose listing is empty returns None, requests no facts, runs
\* no extraction and leaves last_checked_accession unchanged.
C8_EmptyListingIsNoOp ==
    [][(call'.status # "init" /\ call'.filings = <<>>)
       => /\ call'.status = "no_filings"
          /\ ~call'.result.returned
          /\ ~Fetched(call')
          /\ ~call'.extracted
          /\ last_checked_accession' = last_checked_accession]_vars

C8_Witness_EmptyListingAfterResolution ==
    /\ call.status = "no_filings"
    /\ call.filings = <<>>
    /\ prev.status = "resolved"
    /\ last_checked_accession = Accession_X

-----------------------------------------------------------------------------
(* The engine at rest, for the specification that does not run it *)

EngineIdle ==
    /\ last_checked_accession = NoAccession
    /\ tags = <<>>
    /\ estimate = 0
    /\ call = InitCall
    /\ prev = InitPrev
    /\ records = <<>>
    /\ submissions_request = "none"

\* facts is a document in which some candidate tag has a USD observation with
\* all three keys, and every such observation has an amount float() rejects
AmountsUnparseable(facts, tagList) ==
    /\ facts.kind = "doc"
    /\ \E i \in DOMAIN tagList :
          \E j \in DOMAIN usd_facts(facts.us_gaap, tagList[i]) :
              RequiredKeys \subseteq usd_facts(facts.us_gaap, tagList[i])[j].keys
    /\ \A i \in DOMAIN tagList :
          \A j \in DOMAIN usd_facts(facts.us_gaap, tagList[i]) :
              LET f == usd_facts(facts.us_gaap, tagList[i])[j]
              IN RequiredKeys \subseteq f.keys => ~FloatOk(f.val)

\* C13: a call whose facts document carries only unparseable amounts (null,
\* "N/A") for the candidate tags ends as "metric not found": it raises
\* nothing, returns no record and leaves last_checked_accession as it was.
C13_UnparseableAmountRaisesNothing ==
    (Fetched(call) /\ AmountsUnparseable(call.facts, tags)) =>
        /\ call.status = "no_metric"
        /\ ~call.result.returned
        /\ call.after = call.before

\* C14: when the listings request fails at the transport, the call raises:
\* it does not end as a call that found no filing listed.
C14_ListingFailurePropagates ==
    submissions_request = "failed" => call.status = "raised"

-----------------------------------------------------------------------------
(* The extractor on its own: documents are published, then read *)

InitMetric ==
    /\ EngineIdle
    /\ mfacts \in {NoneFacts, EmptyFacts, NoFactsKey, DocFacts(EmptyGaap)}
    /\ mtags \in TagLists
    /\ mresult = NotRun
    /\ ListingIdle
    /\ LoopIdle
    /\ ClockIdle
    /\ DartIdle

PublishObservation ==
    /\ mfacts.kind = "doc"
    /\ ObsCount(mfacts.us_gaap, DOMAIN mfacts.us_gaap) < MaxObs
    /\ \E tag \in TagNames, o \in MetricObs :
           mfacts' = DocFacts(WithObservation(mfacts.us_gaap, tag, o))
    /\ mresult' = NotRun
    /\ UNCHANGED <<mtags, engineVars, listingVars, loopVars, clockVars,
                   dartVars>>

PublishNonUsdTag ==
    /\ mfacts.kind = "doc"
    /\ \E tag \in TagNames \ DOMAIN mfacts.us_gaap :
           mfacts' = DocFacts(WithNonUsdTag(mfacts.us_gaap, tag))
    /\ mresult' = NotRun
    /\ UNCHANGED <<mtags, engineVars, listingVars, loopVars, clockVars,
                   dartVars>>

ExtractMetric ==
    /\ ~mresult.ran
    /\ mresult' = [ran |-> TRUE, out |-> get_latest_metric(mfacts, mtags)]
    /\ UNCHANGED <<mfacts, mtags, engineVars, listingVars, loopVars, clockVars,
                   dartVars>>

NextMetric == PublishObservation \/ PublishNonUsdTag \/ ExtractMetric

SpecMetric == InitMetric /\ [][NextMetric]_vars

-----------------------------------------------------------------------------
(* Properties of get_latest_metric, under SpecMetric *)

\* the valid observations of tag t in the document, in the array's order
ValidUsd(facts, t) ==
    IF FactsUnusable(facts) THEN <<>>
    ELSE valid_facts(usd_facts(facts.us_gaap, t))

\* the document with every tag but t removed
OnlyTag(facts, t) ==
    [kind |-> facts.kind,
     us_gaap |-> [x \in DOMAIN facts.us_gaap \cap {t} |-> facts.us_gaap[x]]]

\* C9: the tag of the returned observation is the first tag of the list with
\* a valid USD observation, and the result is what the document would give
\* were that tag the only one in it: no other tag influences it.
C9_FirstMatchingTagWins ==
    (mresult.ran /\ mresult.out.found) =>
        \E i \in DOMAIN mtags :
            /\ mresult.out.tag = mtags[i]
            /\ ValidUsd(mfacts, mtags[i]) # <<>>
            /\ \A j \in 1..(i - 1) : ValidUsd(mfacts, mtags[j]) = <<>>
            /\ mresult.out = get_latest_metric(OnlyTag(mfacts, mtags[i]), <<mtags[i]>>)

\* two listed tags have valid observations, the later tag's is the more
\* recent one, and the earlier tag's is returned
C9_Witness_LaterTagMoreRecent ==
    /\ mresult.ran
    /\ Len(mtags) >= 2
    /\ ValidUsd(mfacts, mtags[1]) # <<>>
    /\ ValidUsd(mfacts, mtags[2]) # <<>>
    /\ StrLess(ValidUsd(mfacts, mtags[1])[1].end, ValidUsd(mfacts, mtags[2])[1].end)
    /\ mresult.out.tag = mtags[1]

\* C10: no valid observation of the returned tag has an "end" greater than
\* the returned one, and the returned one is a valid observation of that tag.
C10_LatestPeriodEnd ==
    (mresult.ran /\ mresult.out.found) =>
        LET valid == ValidUsd(mfacts, mresult.out.tag)
        IN /\ \A j \in DOMAIN valid : ~StrLess(mresult.out.end, valid[j].end)
           /\ \E j \in DOMAIN valid :
                 /\ valid[j].end = mresult.out.end
                 /\ valid[j].val = mresult.out.value
                 /\ valid[j].accn = mresult.out.accession

\* the later period end is listed second and is the one returned
C10_Witness_LaterEndListedSecond ==
    /\ mresult.ran
    /\ mresult.out.found
    /\ LET valid == ValidUsd(mfacts, mresult.out.tag)
       IN /\ Len(valid) >= 2
          /\ StrLess(valid[1].end, valid[2].end)
          /\ mresult.out.end = valid[2].end

\* an observation that has all three required keys
Complete(f) == {"val", "end", "accn"} \subseteq f.keys

\* the positions, in the USD array of tag t, of the complete observations
\* whose "end" is e
PositionsWithEnd(facts, t, e) ==
    {j \in DOMAIN usd_facts(facts.us_gaap, t) :
        /\ Complete(usd_facts(facts.us_gaap, t)[j])
        /\ usd_facts(facts.us_gaap, t)[j].end = e}

\* the greatest member of a non-empty set of positions
LastOf(S) == CHOOSE j \in S : \A k \in S : k <= j

\* C11: when several valid observations of the returned tag share the
\* latest "end", the one returned is the one listed last in the USD array.
C11_TieReturnsLastListed ==
    (mresult.ran /\ mresult.out.found) =>
        LET usd == usd_facts(mfacts.us_gaap, mresult.out.tag)
            tied == PositionsWithEnd(mfacts, mresult.out.tag, mresult.out.end)
        IN mresult.out.value = usd[LastOf(tied)].val

\* C12: the returned observation is one of the array that has the amount,
\* the period end and the accession; and a listed tag whose USD observations
\* all lack one of them does not stop a later tag from being returned.
C12_IncompleteObservationsDiscarded ==
    mresult.ran =>
        /\ mresult.out.found =>
              \E j \in DOMAIN usd_facts(mfacts.us_gaap, mresult.out.tag) :
                  LET f == usd_facts(mfacts.us_gaap, mresult.out.tag)[j]
                  IN /\ Complete(f)
                     /\ f.val = mresult.out.value
                     /\ f.end = mresult.out.end
                     /\ f.accn = mresult.out.accession
        /\ ~FactsUnusable(mfacts) =>
              (mresult.out.found <=>
                  \E i \in DOMAIN mtags :
                      \E j \in DOMAIN usd_facts(mfacts.us_gaap, mtags[i]) :
                          Complete(usd_facts(mfacts.us_gaap, mtags[i])[j]))

\* tag t of the document has a USD array with an observation that carries the
\* amount, the period end and the accession
HasValidUsdObservation(facts, t) ==
    /\ facts.kind = "doc"
    /\ t \in DOMAIN facts.us_gaap
    /\ facts.us_gaap[t].kind = "usd"
    /\ \E j \in DOMAIN facts.us_gaap[t].obs : Complete(facts.us_gaap[t].obs[j])

\* C29: the result is None exactly when no tag of the list has a valid USD
\* observation in the document, which covers the empty tag list, the document
\* without a "facts" key and tags that have only non-USD units; otherwise the
\* result is an observation of a listed tag.
C29_NoneExactlyWhenNoValidObservation ==
    mresult.ran =>
        /\ ~mresult.out.found <=>
              (\A i \in DOMAIN mtags : ~HasValidUsdObservation(mfacts, mtags[i]))
        /\ mresult.out.found =>
              /\ \E i \in DOMAIN mtags : mresult.out.tag = mtags[i]
              /\ HasValidUsdObservation(mfacts, mresult.out.tag)
        /\ ~mresult.out.found => mresult.out = NoMetric
        /\ (\/ mtags = <<>>
            \/ mfacts.kind = "nofacts"
            \/ \A i \in DOMAIN mtags :
                  /\ mtags[i] \in DOMAIN mfacts.us_gaap
                  /\ mfacts.us_gaap[mtags[i]].kind = "nousd")
           => ~mresult.out.found

\* the first listed tag has only non-USD units, the second is not in the
\* document, a tag that is not listed has a valid observation, and the result
\* is None
C29_Witness_OnlyUnlistedTagHasObservation ==
    /\ mresult.ran
    /\ ~mresult.out.found
    /\ Len(mtags) = 2
    /\ mfacts.kind = "doc"
    /\ mtags[1] \in DOMAIN mfacts.us_gaap
    /\ mfacts.us_gaap[mtags[1]].kind = "nousd"
    /\ mtags[2] \notin DOMAIN mfacts.us_gaap
    /\ \E t \in DOMAIN mfacts.us_gaap : HasValidUsdObservation(mfacts, t)

\* the first listed tag has USD observations, none of them complete, and the
\* second listed tag's observation is returned
C12_Witness_IncompleteTagSkipped ==
    /\ mresult.ran
    /\ Len(mtags) >= 2
    /\ ~FactsUnusable(mfacts)
    /\ usd_facts(mfacts.us_gaap, mtags[1]) # <<>>
    /\ \A j \in DOMAIN usd_facts(mfacts.us_gaap, mtags[1]) :
           ~Complete(usd_facts(mfacts.us_gaap, mtags[1])[j])
    /\ mresult.out.found
    /\ mresult.out.tag = mtags[2]

-----------------------------------------------------------------------------
(* OpenDartClient.get_recent_filings *)

\* "-" is three code points below "0"
Dash == -3

\* "YYYYMMDD" spelled "YYYY-MM-DD"
Dashed(d) == SubSeq(d, 1, 4) \o <<Dash>> \o SubSeq(d, 5, 6) \o <<Dash>> \o SubSeq(d, 7, 8)

\* _normalize_date_string: the regex takes the digits of "YYYYMMDD" and of
\* "YYYY-MM-DD" alike and joins them with dashes
normalize_date_string(text) == IF Len(text) = 8 THEN Dashed(text) ELSE text

\* the default of get_recent_filings' limit parameter
DefaultLimit == 30

\* records[:limit]
Take(s, limit) == SubSeq(s, 1, IF Len(s) < limit THEN Len(s) ELSE limit)

\* self._dart.list(corp, start, end[, kind]): the provider answers with its
\* filings of that disclosure kind, all of them when no kind is given, in
\* its own order
dart_list(rows, kind) ==
    LET OfKind(r) == r.kind = kind
    IN IF kind = "" THEN rows ELSE SelectSeq(rows, OfKind)

list_filings(rows, kind, limit) == Take(dart_list(rows, kind), limit)

\* for form in forms: records.extend(self.list_filings(kind=form, limit=limit))
RECURSIVE ExtendPerForm(_, _, _, _)
ExtendPerForm(rows, formList, limit, i) ==
    IF i > Len(formList) THEN <<>>
    ELSE list_filings(rows, formList[i], limit)
         \o ExtendPerForm(rows, formList, limit, i + 1)

dart_get_recent_filings(rows, formList, limit) ==
    LET recs == IF formList # <<>>
                THEN ExtendPerForm(rows, formList, limit, 1)
                ELSE list_filings(rows, "", limit)
        trimmed == Take(recs, limit)
    IN [i \in 1..Len(trimmed) |->
           [form |-> trimmed[i].report_nm,
            accession |-> trimmed[i].rcept_no,
            filing_date |-> normalize_date_string(trimmed[i].rcept_dt)]]

-----------------------------------------------------------------------------
(* The listings readers on their own: filings are filed, then listed *)

ListingAccessions ==
    <<"0001-24-000001", "0001-24-000002", "0001-24-000003",
      "0001-24-000004", "0001-24-000005", "0001-24-000006">>

\* "20240201" and "20240501"
ListingDates == << <<2, 0, 2, 4, 0, 2, 0, 1>>, <<2, 0, 2, 4, 0, 5, 0, 1>> >>

SecForms == <<"10-Q", "10-K", "8-K">>
DartKinds == <<"A", "B", "I">>
DartReportNames == <<"Quarterly report", "Material event report", "Exchange disclosure">>

\* entries of the submissions document's parallel arrays
SecRows ==
    {[form |-> SecForms[f],
      accessionNumber |-> ListingAccessions[(d - 1) * 3 + f],
      filingDate |-> Dashed(ListingDates[d])] : f \in 1..3, d \in 1..2}

\* rows of the OpenDART list answer, with the disclosure kind they are filed under
DartRows ==
    {[kind |-> DartKinds[f],
      report_nm |-> DartReportNames[f],
      rcept_no |-> ListingAccessions[(d - 1) * 3 + f],
      rcept_dt |-> ListingDates[d]] : f \in 1..3, d \in 1..2}

RowsOf(c) == IF c = "sec" THEN SecRows ELSE DartRows

Range(s) == {s[i] : i \in DOMAIN s}

\* form filters: no form named twice
FiltersOf(c) ==
    {l \in SeqsUpTo(Range(IF c = "sec" THEN SecForms ELSE DartKinds), MaxForms) :
        \A i, j \in DOMAIN l : i # j => l[i] # l[j]}

\* the submissions document whose recent arrays hold these entries
RecentOf(rows) ==
    [kind |-> "doc",
     form |-> [i \in 1..Len(rows) |-> rows[i].form],
     accessionNumber |-> [i \in 1..Len(rows) |-> rows[i].accessionNumber],
     filingDate |-> [i \in 1..Len(rows) |-> rows[i].filingDate]]

NotListed == [ran |-> FALSE, out |-> <<>>]

InitListings ==
    /\ EngineIdle
    /\ MetricIdle
    /\ client \in {"sec", "dart"}
    /\ upstream = <<>>
    /\ lforms \in FiltersOf(client)
    /\ listing = NotListed
    /\ LoopIdle
    /\ ClockIdle
    /\ DartIdle

\* The provider lists one more filing. The order of its answer is not the
\* client's to choose: every order of the filings is reachable.
FileFiling ==
    /\ Len(upstream) < MaxUpstream
    /\ \E r \in RowsOf(client) \ Range(upstream) : upstream' = Append(upstream, r)
    /\ listing' = NotListed
    /\ UNCHANGED <<client, lforms, engineVars, metricVars, loopVars, clockVars,
                   dartVars>>

SecGetRecentFilings ==
    /\ client = "sec"
    /\ ~listing.ran
    /\ listing' = [ran |-> TRUE,
                   out |-> get_recent_filings(RecentOf(upstream), Range(lforms))]
    /\ UNCHANGED <<client, upstream, lforms, engineVars, metricVars, loopVars,
                   clockVars,
                   dartVars>>

DartGetRecentFilings ==
    /\ client = "dart"
    /\ ~listing.ran
    /\ listing' = [ran |-> TRUE,
                   out |-> dart_get_recent_filings(upstream, lforms, DefaultLimit)]
    /\ UNCHANGED <<client, upstream, lforms, engineVars, metricVars, loopVars,
                   clockVars,
                   dartVars>>

NextListings == FileFiling \/ SecGetRecentFilings \/ DartGetRecentFilings

SpecListings == InitListings /\ [][NextListings]_vars

-----------------------------------------------------------------------------
(* Properties of get_recent_filings, under SpecListings *)

\* C15: the filings a client returns are ordered newest first, whatever the
\* order of the provider's answer and whatever the list of forms.
C15_ListingNewestFirst ==
    listing.ran =>
        \A i, j \in DOMAIN listing.out :
            i < j => ~StrLess(listing.out[i].filing_date, listing.out[j].filing_date)

\* the positions of the provider's entries whose form the filter names
MatchingPositions == {i \in DOMAIN upstream : upstream[i].form \in Range(lforms)}

\* the filing get_recent_filings makes of one entry of the parallel arrays
FilingOf(row) ==
    [form |-> row.form, accession |-> row.accessionNumber, filing_date |-> row.filingDate]

\* C16: for a non-empty filter, SECClient.get_recent_filings returns exactly
\* the provider's entries whose form is in the filter, each with its own
\* accession and date, in the provider's order.
C16_SecFilterExactAlignedInOrder ==
    (listing.ran /\ client = "sec" /\ lforms # <<>>) =>
        /\ Len(listing.out) = Cardinality(MatchingPositions)
        /\ \A i \in MatchingPositions :
               listing.out[Cardinality({j \in MatchingPositions : j <= i})]
                   = FilingOf(upstream[i])

\* an entry the filter does not name stands between two it names, which
\* differ in date, and both are returned
C16_Witness_EntrySkippedBetweenTwoKept ==
    /\ listing.ran
    /\ client = "sec"
    /\ Len(lforms) = 2
    /\ MatchingPositions = {1, 3}
    /\ Len(listing.out) = 2
    /\ listing.out[1].filing_date # listing.out[2].filing_date

\* C17: with an empty filter, SECClient.get_recent_filings returns the
\* provider's recent entries unfiltered.
C17_SecEmptyFilterReturnsWindow ==
    (listing.ran /\ client = "sec" /\ lforms = <<>>) =>
        /\ Len(listing.out) = Len(upstream)
        /\ \A i \in DOMAIN upstream : listing.out[i] = FilingOf(upstream[i])

-----------------------------------------------------------------------------
(* The poll loop of monitor.py: while True, try the cycle, sleep *)

\* no except clause around the cycle: an exception ends the process
AfterCycleUncaught(failed) == IF failed THEN "exited" ELSE "sleep"

\* the handler going back to the call without its time.sleep
AfterCycleRetriesAtOnce(failed) == IF failed THEN "check" ELSE "sleep"

\* where the loop stands after one cycle: at the time.sleep that ends the try
\* block, or, when the cycle raised an Exception, at the handler's
AfterCycle(failed) == IF failed THEN "except_sleep" ELSE "sleep"

\* answers of the company-facts request: none, a document without the tags,
\* one with a numeric amount and one with a null amount
LoopFacts ==
    {NoneFacts, DocFacts(EmptyGaap)}
    \cup {DocFacts(WithObservation(EmptyGaap, "Revenues",
              Obs(RequiredKeys, v, End_2023_12_31, Accession_X))) :
             v \in {IntVal(MaxVal), NullVal}}

\* the extractor finds an observation in facts and float() accepts its amount
YieldsValidMetric(facts, tagList) ==
    /\ get_latest_metric(facts, tagList).found
    /\ FloatOk(get_latest_metric(facts, tagList).value)

\* what the listings request can answer at this poll
PollAnswers ==
    IF settled.on
    THEN {a \in ListingAnswers : a.filings # <<>>
                                  /\ a.filings[1].accession = settled.newest}
    ELSE ListingAnswers

\* what the company-facts request can answer at this poll
PollFacts == IF settled.on THEN {settled.facts} ELSE LoopFacts

\* From now on the newest filing stays the same and the facts request
\* answers with one document that yields a valid metric.
Settle ==
    /\ ~settled.on
    /\ \E y \in EngineAccessions, f \in LoopFacts :
          /\ YieldsValidMetric(f, tags)
          /\ settled' = [on |-> TRUE, newest |-> y, facts |-> f]
    /\ UNCHANGED <<engineVars, loop_pc, produced, slept, metricVars, listingVars,
                   clockVars, dartVars>>

\* One cycle of the loop: check_for_resolution, then the reporting of its
\* result, which may raise as well.
Poll ==
    /\ loop_pc = "check"
    /\ \E answer \in PollAnswers, facts \in PollFacts, report_raises \in BOOLEAN :
          LET c == check_for_resolution(last_checked_accession, tags, estimate,
                                        answer.filings, facts)
          IN /\ c.status = "raised" => ~report_raises
             /\ call' = c
             /\ prev' = [status |-> call.status, newest |-> Newest(call)]
             /\ submissions_request' = answer.request
             /\ last_checked_accession' = c.after
             /\ produced' = IF c.result.returned
                            THEN produced \cup {c.result.filing.accession}
                            ELSE produced
             /\ loop_pc' = AfterCycle(c.status = "raised" \/ report_raises)
             /\ slept' = 0
    /\ UNCHANGED <<tags, estimate, records, settled, metricVars, listingVars, clockVars,
                   dartVars>>

\* time.sleep(POLL_INTERVAL_SEC) returns and the loop starts over
Sleep ==
    /\ loop_pc \in {"sleep", "except_sleep"}
    /\ loop_pc' = "check"
    /\ slept' = slept + 1
    /\ UNCHANGED <<engineVars, settled, produced, metricVars, listingVars, clockVars,
                   dartVars>>

NextLoop == Settle \/ Poll \/ Sleep

SpecLoop == Init /\ [][NextLoop]_vars

\* The process is scheduled: a cycle that can start does start, and a sleep
\* that can return does return.
SpecLoopFair == SpecLoop /\ WF_vars(Poll) /\ WF_vars(Sleep)

-----------------------------------------------------------------------------
(* Properties of the poll loop, under SpecLoopFair *)

\* C18: no cycle ends the loop; after a cycle, failed or not, the loop comes
\* back to the call of check_for_resolution, and makes it.
C18_LoopSurvivesFailedCycle ==
    /\ [](loop_pc # "exited")
    /\ (loop_pc \in {"sleep", "except_sleep"}) ~> (loop_pc = "check")
    /\ (loop_pc = "check") ~> (loop_pc # "check")

\* the last cycle raised, the handler slept, and the loop is at the next call
C18_Witness_NextCycleAfterException ==
    /\ loop_pc = "check"
    /\ call.status = "raised"

\* C28: check_for_resolution is invoked only from the one position of the
\* loop that stands before the call, every invocation has ended when the next
\* step is taken, and between the end of one invocation and the start of the
\* next the loop sleeps exactly once, after a cycle that returned and after a
\* cycle that raised alike.
C28_OneSleepBetweenPolls ==
    /\ [](loop_pc \in {"check", "sleep", "except_sleep"})
    /\ [](loop_pc \in {"sleep", "except_sleep"} => (call.status # "init" /\ slept = 0))
    /\ []((loop_pc = "check" /\ call.status # "init") => slept = 1)
    /\ [][(loop_pc = "check" /\ loop_pc' # "check")
          => (loop_pc' \in {"sleep", "except_sleep"} /\ slept' = 0)]_vars
    /\ [][(loop_pc \in {"sleep", "except_sleep"})
          => UNCHANGED <<call, last_checked_accession, produced>>]_vars

\* a cycle raised, the handler slept once, and the loop stands at the next call
C28_Witness_OneSleepAfterException ==
    /\ loop_pc = "check"
    /\ call.status = "raised"
    /\ prev.status = "resolved"
    /\ slept = 1

\* C19: once the newest filing stays Y and the facts request answers with a
\* document that yields a valid metric, a record for Y is eventually returned.
C19_EventualResolution ==
    settled.on ~> (settled.newest \in produced)

\* a poll for Y ended in "facts unavailable" or "metric not found", and the
\* next one, with the provider settled, returned the record for Y
C19_Witness_ResolvedAfterFailedPoll ==
    /\ settled.on
    /\ call.status = "resolved"
    /\ Newest(call) = settled.newest
    /\ prev.status \in {"no_facts", "no_metric"}
    /\ prev.newest = settled.newest

-----------------------------------------------------------------------------
(* _rate_limit of the two clients, one thread. Time is counted in ticks of   *)
(* 0.05 s.                                                                   *)

\* SECClient._min_request_interval = 0.1
SecMinRequestInterval == 2

\* DART_MIN_REQUEST_INTERVAL as the environment may set it: negative, zero,
\* 0.1 and the default 0.2
DartMinRequestIntervals == {-2, 0, 2, 4}

\* max(DART_MIN_REQUEST_INTERVAL, 0.0)
Max0(x) == IF x > 0 THEN x ELSE 0

\* time.time() when the client is built: the epoch is further back than any
\* interval, so the first call finds elapsed >= the interval
ClockAtStart == 4

\* _rate_limit that never sleeps
NeedsSleepNever(elapsed, interval) == FALSE

\* if elapsed < self._min_request_interval
NeedsSleep(elapsed, interval) == elapsed < interval

\* OpenDartClient._rate_limit returns at once when the interval is not positive
SkipsLimit(c, interval) == c = "dart" /\ interval <= 0

\* a network call is issued at time t
IssuedAt(t) ==
    [n |-> IF issued.n < 2 THEN issued.n + 1 ELSE 2, prev |-> issued.last, last |-> t]

InitClock ==
    /\ EngineIdle
    /\ MetricIdle
    /\ LoopIdle
    /\ client \in {"sec", "dart"}
    /\ upstream = <<>>
    /\ lforms = <<>>
    /\ listing = NotListed
    /\ now = ClockAtStart
    /\ last_request_time = 0
    /\ min_interval \in IF client = "sec" THEN {SecMinRequestInterval}
                        ELSE {Max0(d) : d \in DartMinRequestIntervals}
    /\ rl = NotLimiting
    /\ other = NotLimiting
    /\ issued = NoneIssued
    /\ DartIdle

\* time passes
Tick ==
    /\ now < MaxTime
    /\ now' = now + 1
    /\ UNCHANGED <<last_request_time, min_interval, rl, other, issued, engineVars,
                   metricVars, listingVars, loopVars,
                   dartVars>>

\* A method that makes a network call is entered: _rate_limit reads the clock
\* and either goes to sleep or goes on to the stamp. With no interval the
\* DART client makes the call at once and stamps nothing.
RateLimit ==
    /\ rl.pc = "idle"
    /\ IF SkipsLimit(client, min_interval)
       THEN /\ issued' = IssuedAt(now)
            /\ rl' = rl
       ELSE /\ issued' = issued
            /\ rl' = IF NeedsSleep(now - last_request_time, min_interval)
                     THEN [pc |-> "sleeping",
                           wake |-> now + (min_interval - (now - last_request_time))]
                     ELSE [pc |-> "stamping", wake |-> 0]
    /\ UNCHANGED <<now, last_request_time, min_interval, other, engineVars, metricVars,
                   listingVars, loopVars,
                   dartVars>>

\* time.sleep(interval - elapsed) returns, no earlier than asked
WakeUp ==
    /\ rl.pc = "sleeping"
    /\ now >= rl.wake
    /\ rl' = [pc |-> "stamping", wake |-> 0]
    /\ UNCHANGED <<now, last_request_time, min_interval, other, issued, engineVars,
                   metricVars, listingVars, loopVars,
                   dartVars>>

\* self._last_request_time = time.time(), and the call _rate_limit was made
\* for is issued
StampAndCall ==
    /\ rl.pc = "stamping"
    /\ last_request_time' = now
    /\ issued' = IssuedAt(now)
    /\ rl' = NotLimiting
    /\ UNCHANGED <<now, min_interval, other, engineVars, metricVars, listingVars,
                   loopVars,
                   dartVars>>

NextClock == Tick \/ RateLimit \/ WakeUp \/ StampAndCall

SpecClock == InitClock /\ [][NextClock]_vars

-----------------------------------------------------------------------------
(* Properties of the rate limit, under SpecClock *)

\* C20: a network call is issued only by the step that ends the rate-limit
\* step; two consecutive calls of one client are at least its minimum
\* interval apart; and the last-request timestamp never decreases.
C20_CallsSpacedByMinInterval ==
    /\ [](issued.n >= 2 => issued.last - issued.prev >= min_interval)
    /\ [][/\ last_request_time' >= last_request_time
          /\ issued' # issued =>
                /\ rl'.pc = "idle"
                /\ rl.pc = "stamping" \/ SkipsLimit(client, min_interval)
                /\ min_interval > 0 => last_request_time' = issued'.last]_vars

\* the second call slept and was issued exactly one interval after the first
C20_Witness_SecondCallSlept ==
    /\ issued.n = 2
    /\ min_interval > 0
    /\ issued.last - issued.prev = min_interval
    /\ last_request_time = issued.last

-----------------------------------------------------------------------------
(* One client instance shared by two threads. Neither client holds a lock:   *)
(* the second thread takes the steps of _rate_limit as the first does, on    *)
(* the same _last_request_time, interleaved with the first in any way.       *)

OtherRateLimit ==
    /\ other.pc = "idle"
    /\ IF SkipsLimit(client, min_interval)
       THEN /\ issued' = IssuedAt(now)
            /\ other' = other
       ELSE /\ issued' = issued
            /\ other' = IF NeedsSleep(now - last_request_time, min_interval)
                        THEN [pc |-> "sleeping",
                              wake |-> now + (min_interval - (now - last_request_time))]
                        ELSE [pc |-> "stamping", wake |-> 0]
    /\ UNCHANGED <<now, last_request_time, min_interval, rl, engineVars, metricVars,
                   listingVars, loopVars,
                   dartVars>>

OtherWakeUp ==
    /\ other.pc = "sleeping"
    /\ now >= other.wake
    /\ other' = [pc |-> "stamping", wake |-> 0]
    /\ UNCHANGED <<now, last_request_time, min_interval, rl, issued, engineVars,
                   metricVars, listingVars, loopVars,
                   dartVars>>

OtherStampAndCall ==
    /\ other.pc = "stamping"
    /\ last_request_time' = now
    /\ issued' = IssuedAt(now)
    /\ other' = NotLimiting
    /\ UNCHANGED <<now, min_interval, rl, engineVars, metricVars, listingVars, loopVars,
                   dartVars>>

NextSharedClock ==
    NextClock \/ OtherRateLimit \/ OtherWakeUp \/ OtherStampAndCall

SpecSharedClock == InitClock /\ [][NextSharedClock]_vars

\* C21: with the client shared by two threads, two consecutive network calls
\* are still at least the minimum interval apart.
C21_SharedClientCallsSpaced ==
    issued.n >= 2 => issued.last - issued.prev >= min_interval

-----------------------------------------------------------------------------
(* OpenDartClient._parse_amount. A str is a sequence of characters, each a   *)
(* one-character string; "em-dash" stands for the character U+2014.          *)

TextAmount(s) == [k |-> "str", n |-> 0, s |-> s]
NumAmount(n) == [k |-> "num", n |-> n, s |-> <<>>]

\* what float() gives: a number, nan, or ValueError
FloatVal(n) == [k |-> "float", n |-> n, s |-> <<>>]
NanVal == [k |-> "nan", n |-> 0, s |-> <<>>]
ValueError == [k |-> "error", n |-> 0, s |-> <<>>]

DigitChars == <<"0", "1", "2", "3", "4", "5", "6", "7", "8", "9">>
IsDigit(c) == \E d \in DOMAIN DigitChars : DigitChars[d] = c
DigitOf(c) == (CHOOSE d \in DOMAIN DigitChars : DigitChars[d] = c) - 1

RECURSIVE DigitsValue(_)
DigitsValue(s) ==
    IF s = <<>> THEN 0
    ELSE 10 * DigitsValue(SubSeq(s, 1, Len(s) - 1)) + DigitOf(s[Len(s)])

\* str.lower() on the letters of the model
LowerChar(c) == IF c = "N" THEN "n" ELSE IF c = "A" THEN "a" ELSE c

\* str.strip()
RECURSIVE LStrip(_)
LStrip(s) == IF s # <<>> /\ Head(s) = " " THEN LStrip(Tail(s)) ELSE s
RECURSIVE RStrip(_)
RStrip(s) ==
    IF s # <<>> /\ s[Len(s)] = " " THEN RStrip(SubSeq(s, 1, Len(s) - 1)) ELSE s
Strip(s) == RStrip(LStrip(s))

\* float(text) for a stripped text without "." or exponent: an optional
\* minus sign and digits, or nan in any case; ValueError for anything else
FloatOfText(text) ==
    LET negative == text # <<>> /\ Head(text) = "-"
        digits == IF negative THEN Tail(text) ELSE text
    IN IF digits # <<>> /\ \A i \in DOMAIN digits : IsDigit(digits[i])
       THEN FloatVal(IF negative THEN 0 - DigitsValue(digits) ELSE DigitsValue(digits))
       ELSE IF [i \in DOMAIN digits |-> LowerChar(digits[i])] = <<"n", "a", "n">>
       THEN NanVal
       ELSE ValueError

\* the text with its commas left in
KeepCommas(text) == text

\* text.replace(",", "")
RemoveCommas(text) ==
    LET NotComma(c) == c # ","
    IN SelectSeq(text, NotComma)

\* the texts _parse_amount answers None for without calling float()
PlaceholderTexts == {<<"-">>, <<"N", "a", "N">>, <<"n", "a", "n">>}

\* _parse_amount answering zero where it answers None
ParseAmountZeroForNone(value) ==
    IF value.k = "none" THEN FloatVal(0)
    ELSE IF value.k = "num" THEN FloatVal(value.n)
    ELSE LET text == Strip(value.s)
         IN IF text = <<>> \/ text \in PlaceholderTexts THEN FloatVal(0)
            ELSE LET f == FloatOfText(RemoveCommas(text))
                 IN IF f.k = "error" THEN FloatVal(0) ELSE f

parse_amount(value) ==
    IF value.k = "none" THEN NoAmount
    ELSE IF value.k = "num" THEN FloatVal(value.n)
    ELSE LET text == Strip(value.s)
         IN IF text = <<>> \/ text \in PlaceholderTexts THEN NoAmount
            ELSE LET f == FloatOfText(RemoveCommas(text))
                 IN IF f.k = "error" THEN NoAmount ELSE f

-----------------------------------------------------------------------------
(* _parse_amount on its own: a cell is typed, then parsed *)

AmountChars == {"0", "1", "2", ",", "-", "em-dash", "N", "a", "n", "/", "A", " "}

\* "1,234,500"
Text_1_234_500 == <<"1", ",", "2", "3", "4", ",", "5", "0", "0">>

InitAmount ==
    /\ EngineIdle
    /\ MetricIdle
    /\ ListingIdle
    /\ LoopIdle
    /\ ClockIdle
    /\ raw_amount \in {NoAmount, TextAmount(<<>>), TextAmount(Text_1_234_500)}
                      \cup {NumAmount(n) : n \in 0..MaxVal}
    /\ parsed = NotParsed
    /\ request = NoRequest
    /\ context = NoContext
    /\ search = NotSearching

\* the cell holds one more character
TypeChar ==
    /\ raw_amount.k = "str"
    /\ Len(raw_amount.s) < MaxText
    /\ \E c \in AmountChars : raw_amount' = TextAmount(Append(raw_amount.s, c))
    /\ parsed' = NotParsed
    /\ UNCHANGED <<request, context, search, engineVars, metricVars, listingVars,
                   loopVars, clockVars>>

ParseAmount ==
    /\ ~parsed.ran
    /\ parsed' = [ran |-> TRUE, out |-> parse_amount(raw_amount)]
    /\ UNCHANGED <<raw_amount, request, context, search, engineVars, metricVars,
                   listingVars, loopVars, clockVars>>

NextAmount == TypeChar \/ ParseAmount

SpecAmount == InitAmount /\ [][NextAmount]_vars

-----------------------------------------------------------------------------
(* Properties of _parse_amount, under SpecAmount *)

\* the cell is a text of digits and commas with at least one digit
DigitsAndCommas(v) ==
    /\ v.k = "str"
    /\ \A i \in DOMAIN v.s : IsDigit(v.s[i]) \/ v.s[i] = ","
    /\ \E i \in DOMAIN v.s : IsDigit(v.s[i])

\* the digits of a text, in order
DigitsOnly(text) == SelectSeq(text, IsDigit)

\* C22: "1,234,500" parses to 1234500 and any text of digits and commas to
\* the number its digits spell; a number parses to itself; None, the empty
\* string and the placeholders em-dash, "-", "N/A" and "NaN" parse to None;
\* and the answer is always None or a float, never an exception.
C22_ParseAmountTolerant ==
    parsed.ran =>
        /\ parsed.out.k \in {"none", "float", "nan"}
        /\ raw_amount = TextAmount(Text_1_234_500) => parsed.out = FloatVal(1234500)
        /\ DigitsAndCommas(raw_amount) =>
              parsed.out = FloatVal(DigitsValue(DigitsOnly(raw_amount.s)))
        /\ raw_amount.k = "num" => parsed.out = FloatVal(raw_amount.n)
        /\ raw_amount \in {NoAmount, TextAmount(<<>>), TextAmount(<<"em-dash">>),
                           TextAmount(<<"-">>), TextAmount(<<"N", "/", "A">>),
                           TextAmount(<<"N", "a", "N">>)}
              => parsed.out = NoAmount

\* "1,234,500" was parsed to 1234500
C22_Witness_ThousandsSeparators ==
    /\ parsed.ran
    /\ raw_amount = TextAmount(Text_1_234_500)
    /\ parsed.out = FloatVal(1234500)

-----------------------------------------------------------------------------
(* OpenDartClient.get_latest_metric and what it calls. None, for a year, is  *)
(* NoYear; None and "", for a period, are NoPeriod (the code tests both      *)
(* with `if period`).                                                        *)

PERIOD_FALLBACK_ORDER == <<"half", "annual", "q3", "q1">>

\* the mapping of _resolve_report_code without its entries for the first quarter
ReportCodeOfNoFirstQuarter(period_key) ==
    IF period_key \in {"annual", "business", "q4"} THEN "11014"
    ELSE IF period_key \in {"half", "semiannual", "q2"} THEN "11012"
    ELSE IF period_key \in {"q3", "third"} THEN "11013"
    ELSE ""

\* the keys of the mapping of _resolve_report_code, and the codes
ReportCodeOf(period_key) ==
    IF period_key \in {"annual", "business", "q4"} THEN "11014"
    ELSE IF period_key \in {"q1", "first"} THEN "11011"
    ELSE IF period_key \in {"half", "semiannual", "q2"} THEN "11012"
    ELSE IF period_key \in {"q3", "third"} THEN "11013"
    ELSE ""

\* _resolve_report_code: "" stands for raise OpenDartError
resolve_report_code(period) ==
    ReportCodeOf(IF period = NoPeriod THEN "annual" ELSE period)

\* the de-duplication loop of _build_year_candidates, from i on
RECURSIVE UniqueFrom(_, _, _)
UniqueFrom(candidates, seen, i) ==
    IF i > Len(candidates) THEN <<>>
    ELSE IF candidates[i] \in seen THEN UniqueFrom(candidates, seen, i + 1)
    ELSE <<candidates[i]>> \o UniqueFrom(candidates, seen \cup {candidates[i]}, i + 1)

\* _build_year_candidates looking forward from the inferred year
BuildYearCandidatesForward(explicit_year, inferred_year, today_year) ==
    IF explicit_year # NoYear THEN <<explicit_year>>
    ELSE IF inferred_year # NoYear THEN <<inferred_year, inferred_year + 1>>
    ELSE <<today_year, today_year + 1>>

build_year_candidates(explicit_year, inferred_year, today_year) ==
    IF explicit_year # NoYear THEN <<explicit_year>>
    ELSE UniqueFrom(IF inferred_year # NoYear
                    THEN <<inferred_year, inferred_year - 1>>
                    ELSE <<today_year, today_year - 1>>, {}, 1)

\* for period in PERIOD_FALLBACK_ORDER: if period not in candidates: append
RECURSIVE AppendMissing(_, _, _)
AppendMissing(candidates, order, i) ==
    IF i > Len(order) THEN candidates
    ELSE AppendMissing(IF order[i] \in {candidates[k] : k \in DOMAIN candidates}
                       THEN candidates
                       ELSE Append(candidates, order[i]), order, i + 1)

\* _build_period_candidates appending the whole fallback order
BuildPeriodCandidatesRepeating(explicit_period, inferred_period) ==
    IF explicit_period # NoPeriod THEN <<explicit_period>>
    ELSE (IF inferred_period # NoPeriod THEN <<inferred_period>> ELSE <<>>)
         \o PERIOD_FALLBACK_ORDER

\* _build_period_candidates putting the inferred period before the explicit one
BuildPeriodCandidatesInferredFirst(explicit_period, inferred_period) ==
    IF inferred_period # NoPeriod
    THEN AppendMissing(<<inferred_period>>, PERIOD_FALLBACK_ORDER, 1)
    ELSE IF explicit_period # NoPeriod THEN <<explicit_period>>
    ELSE PERIOD_FALLBACK_ORDER

build_period_candidates(explicit_period, inferred_period) ==
    IF explicit_period # NoPeriod THEN <<explicit_period>>
    ELSE AppendMissing(IF inferred_period # NoPeriod THEN <<inferred_period>> ELSE <<>>,
                       PERIOD_FALLBACK_ORDER, 1)

\* str.lower() on the account names of the model
LowerName(name) ==
    IF name = "Revenue" THEN "revenue"
    ELSE IF name \in {"Sales", "SALES"} THEN "sales"
    ELSE name

\* str.lower() on the words of a report name
LowerWord(word) ==
    IF word = "Semi" THEN "semi"
    ELSE IF word = "1Q" THEN "1q"
    ELSE IF word = "3Q" THEN "3q"
    ELSE word

\* the mappings of _infer_period_from_report, in the order the dict lists
\* them; the Korean keywords are written in Latin letters (bangi: half-year,
\* saeop: business, yeongan: yearly, bungi: quarter, bogoseo: report)
PeriodKeywords ==
    <<[keyword |-> "bangi", period |-> "half"],
      [keyword |-> "semi", period |-> "half"],
      [keyword |-> "saeop", period |-> "annual"],
      [keyword |-> "yeongan", period |-> "annual"],
      [keyword |-> "1bungi", period |-> "q1"],
      [keyword |-> "1q", period |-> "q1"],
      [keyword |-> "3bungi", period |-> "q3"],
      [keyword |-> "3q", period |-> "q3"]>>

\* for keyword, period in mappings.items(): if keyword in lower: return period
\* from position i on; a report name is the sequence of its words
RECURSIVE FirstKeyword(_, _)
FirstKeyword(lower, i) ==
    IF i > Len(PeriodKeywords) THEN NoPeriod
    ELSE IF PeriodKeywords[i].keyword \in lower THEN PeriodKeywords[i].period
    ELSE FirstKeyword(lower, i + 1)

\* _infer_period_from_report
infer_period_from_report(report_nm) ==
    IF report_nm = <<>> THEN NoPeriod
    ELSE FirstKeyword({LowerWord(report_nm[k]) : k \in DOMAIN report_nm}, 1)

\* _build_metric_response, for the keys get_latest_metric reads
build_metric_response(row, year, period) ==
    [found |-> TRUE,
     account_name |-> row.account_nm,
     current_amount |-> parse_amount(row.thstrm_amount),
     year |-> year,
     period |-> period,
     reprt_code |-> resolve_report_code(period)]

\* for row in statements: if account_nm.lower() in lowered: return, from i on
RECURSIVE FirstMatchingRow(_, _, _, _, _)
FirstMatchingRow(statements, lowered, year, period, i) ==
    IF i > Len(statements) THEN NoDartMetric
    ELSE IF LowerName(statements[i].account_nm) \in lowered
    THEN build_metric_response(statements[i], year, period)
    ELSE FirstMatchingRow(statements, lowered, year, period, i + 1)

\* get_financial_metric on the rows get_financial_statements returned
get_financial_metric(account_names, statements, year, period) ==
    FirstMatchingRow(statements,
                     {LowerName(account_names[k]) : k \in DOMAIN account_names},
                     year, period, 1)

PeriodFiscalLabel(period_key) ==
    IF period_key \in {"annual", "business", "q4"} THEN "FY"
    ELSE IF period_key \in {"half", "q2"} THEN "HY"
    ELSE IF period_key \in {"q1", "first"} THEN "Q1"
    ELSE IF period_key \in {"q3", "third"} THEN "Q3"
    ELSE period_key

\* _build_latest_metric_payload, for the keys that depend on the metric
build_latest_metric_payload(metric) ==
    [found |-> TRUE,
     tag |-> metric.account_name,
     value |-> metric.current_amount,
     fiscal_year |-> metric.year,
     fiscal_period |-> PeriodFiscalLabel(metric.period)]

\* the loops with the periods outside and the years inside
NextPairPeriodsOuter(yi, pi, ny, np) ==
    IF yi < ny THEN <<yi + 1, pi>> ELSE <<1, pi + 1>>

\* for candidate_year in years_to_try: for candidate_period in periods_to_try:
\* the indices of the pair after (yi, pi)
NextPair(yi, pi, ny, np) ==
    IF pi < np THEN <<yi, pi + 1>> ELSE <<yi + 1, 1>>

-----------------------------------------------------------------------------
(* The search of get_latest_metric, one statement request per step. The      *)
(* provider answers every request with a table of its own choosing, or fails.*)

CurrentYear == 2024
FiledYear == 2023
AskedYear == 2022

AccountNameLists == {<<>>, <<"Revenue", "Sales">>, <<"Sales", "Revenue">>}

Requests ==
    {[account_names |-> names, year |-> y, period |-> p] :
        names \in AccountNameLists, y \in {NoYear, AskedYear}, p \in {NoPeriod, "q3", "q9"}}

\* words of the report names of periodic disclosures
ReportWords == {"bangi", "Semi", "saeop", "1bungi", "1Q", "3Q", "bungi", "bogoseo"}

PeriodicReportNames == UNION {[1..n -> ReportWords] : n \in 0..MaxWords}

\* what _infer_reporting_context returns: nothing when no periodic filing is
\* listed, and the year and the inferred period of the newest one otherwise
Contexts ==
    {NoContext}
    \cup {[year |-> FiledYear, period |-> infer_period_from_report(nm)] :
             nm \in PeriodicReportNames}

\* rows of a statement: an amount with thousands separators, the placeholder
\* "-", and a row without a current-period amount
StatementRows ==
    {[account_nm |-> "revenue", thstrm_amount |-> TextAmount(Text_1_234_500)],
     [account_nm |-> "revenue", thstrm_amount |-> NoAmount],
     [account_nm |-> "SALES", thstrm_amount |-> TextAmount(Text_1_234_500)],
     [account_nm |-> "SALES", thstrm_amount |-> TextAmount(<<"-">>)]}

StatementTables ==
    UNION {[1..n -> StatementRows] : n \in 0..MaxRows}

\* how a statement request can end: the call raises, or a table comes back
StatementAnswers ==
    {[ok |-> FALSE, rows |-> <<>>]} \cup {[ok |-> TRUE, rows |-> t] : t \in StatementTables}

SearchOver == {"hit", "exhausted", "raised"}

InitDartMetric ==
    /\ EngineIdle
    /\ MetricIdle
    /\ ListingIdle
    /\ LoopIdle
    /\ ClockIdle
    /\ raw_amount = NoAmount
    /\ parsed = NotParsed
    /\ request \in Requests
    /\ context = NoContext
    /\ search = NotSearching

\* get_latest_metric up to the loops: the check of account_names, the
\* reporting context and the two candidate lists
StartSearch ==
    /\ search.pc = "idle"
    /\ IF request.account_names = <<>>
       THEN /\ search' = [search EXCEPT !.pc = "raised"]
            /\ UNCHANGED context
       ELSE \E listed \in BOOLEAN, ctx \in Contexts :
              IF ~listed
              THEN /\ search' = [search EXCEPT !.pc = "raised"]
                   /\ UNCHANGED context
              ELSE /\ context' = ctx
                   /\ LET years == build_year_candidates(request.year, ctx.year, CurrentYear)
                          periods == build_period_candidates(request.period, ctx.period)
                      IN search' = [search EXCEPT !.pc = "searching",
                                                  !.years = years,
                                                  !.periods = periods]
    /\ UNCHANGED <<raw_amount, parsed, request, engineVars, metricVars, listingVars,
                   loopVars, clockVars>>

\* one turn of the inner loop: get_financial_metric for the candidate pair,
\* then the return or the next pair
FetchStatement ==
    /\ search.pc = "searching"
    /\ LET year == search.years[search.yi]
           period == search.periods[search.pi]
       IN IF resolve_report_code(period) = ""
          THEN search' = [search EXCEPT !.pc = "raised"]
          ELSE \E answer \in StatementAnswers :
                 IF ~answer.ok
                 THEN search' = [search EXCEPT
                        !.pc = "raised",
                        !.fetches = Append(@, [year |-> year, period |-> period,
                                               hit |-> FALSE])]
                 ELSE LET table == answer.rows
                          metric == get_financial_metric(request.account_names, table,
                                                         year, period)
                          hit == metric.found /\ metric.current_amount # NoAmount
                          next == NextPair(search.yi, search.pi, Len(search.years),
                                           Len(search.periods))
                          over == next[1] > Len(search.years)
                                  \/ next[2] > Len(search.periods)
                      IN search' = [search EXCEPT
                           !.pc = IF hit THEN "hit"
                                  ELSE IF over THEN "exhausted" ELSE "searching",
                           !.yi = IF hit \/ over THEN @ ELSE next[1],
                           !.pi = IF hit \/ over THEN @ ELSE next[2],
                           !.fetches = Append(@, [year |-> year, period |-> period,
                                                  hit |-> hit]),
                           !.statements = table,
                           !.metric = metric,
                           !.out = IF hit THEN build_latest_metric_payload(metric)
                                   ELSE NoPayload]
    /\ UNCHANGED <<raw_amount, parsed, request, context, engineVars, metricVars,
                   listingVars, loopVars, clockVars>>

NextDartMetric == StartSearch \/ FetchStatement

SpecDartMetric == InitDartMetric /\ [][NextDartMetric]_vars

Started == search.pc \in {"searching", "hit", "exhausted"}

\* C23: with no explicit period and the newest periodic filing inferred as
\* annual, the periods are tried in the order annual, half, annual, q3, q1.
C23_AnnualThenWholeFallbackOrder ==
    (Started /\ request.period = NoPeriod /\ context.period = "annual")
        => search.periods = <<"annual", "half", "annual", "q3", "q1">>

\* C23 (amended): with no explicit period, the inferred period is tried first
\* and then the fallback order half, annual, q3, q1 without the period already
\* listed; for an inferred annual that is annual, half, q3, q1, and every
\* period is tried at most once.
C23_InferredThenFallbackWithoutRepeat ==
    (Started /\ request.period = NoPeriod) =>
        /\ context.period = "annual" => search.periods = <<"annual", "half", "q3", "q1">>
        /\ context.period = "half" => search.periods = <<"half", "annual", "q3", "q1">>
        /\ context.period = NoPeriod => search.periods = PERIOD_FALLBACK_ORDER
        /\ \A i, j \in DOMAIN search.periods :
              search.periods[i] = search.periods[j] => i = j

C23_Witness_AnnualInferred ==
    /\ search.pc = "exhausted"
    /\ request.period = NoPeriod
    /\ context.period = "annual"
    /\ request.year = AskedYear
    /\ Len(search.fetches) = 4

\* C24: with no explicit year the candidate years are the inferred year and
\* the year before it, or the current year and the year before it when no
\* year was inferred: at most two years, none twice.
C24_YearCandidates ==
    (Started /\ request.year = NoYear) =>
        /\ search.years = IF context.year # NoYear
                          THEN <<context.year, context.year - 1>>
                          ELSE <<CurrentYear, CurrentYear - 1>>
        /\ Len(search.years) <= 2
        /\ \A i, j \in DOMAIN search.years : search.years[i] = search.years[j] => i = j

C24_Witness_InferredYearAndPrevious ==
    /\ Started
    /\ request.year = NoYear
    /\ context.year = FiledYear
    /\ search.years = <<FiledYear, FiledYear - 1>>
    /\ \E k \in DOMAIN search.fetches : search.fetches[k].year = FiledYear - 1

\* C25: an explicit year is the only year tried and an explicit period the
\* only period tried, whatever the newest filing suggests.
C25_ExplicitYearAndPeriodOnly ==
    Started =>
        /\ request.year # NoYear =>
              /\ search.years = <<request.year>>
              /\ \A k \in DOMAIN search.fetches : search.fetches[k].year = request.year
        /\ request.period # NoPeriod =>
              /\ search.periods = <<request.period>>
              /\ \A k \in DOMAIN search.fetches : search.fetches[k].period = request.period

C25_Witness_ExplicitAgainstInferred ==
    /\ search.pc = "exhausted"
    /\ request.year = AskedYear
    /\ request.period = "q3"
    /\ context = [year |-> FiledYear, period |-> "annual"]
    /\ search.fetches = <<[year |-> AskedYear, period |-> "q3", hit |-> FALSE]>>

\* the period of the statement request the search is about to make
CandidatePeriod == search.periods[search.pi]

\* C32: a candidate period outside the mapping of _resolve_report_code raises
\* before any statement is requested; a search without an explicit period,
\* whatever period the newest filing infers, has only periods of the mapping
\* among its candidates, so only a period the caller supplied can raise so.
C32_UnsupportedPeriodOnlyFromCaller ==
    /\ []((Started /\ request.period = NoPeriod) =>
            /\ context.period \in {NoPeriod, "half", "annual", "q1", "q3"}
            /\ \A k \in DOMAIN search.periods :
                  resolve_report_code(search.periods[k]) # "")
    /\ [][(search.pc = "searching" /\ resolve_report_code(CandidatePeriod) = "")
          => /\ request.period # NoPeriod
             /\ CandidatePeriod = request.period
             /\ search'.pc = "raised"
             /\ search'.fetches = search.fetches]_vars
    /\ [][(search.pc = "searching" /\ resolve_report_code(CandidatePeriod) # ""
                                  /\ search' # search)
          => Len(search'.fetches) = Len(search.fetches) + 1]_vars

\* the caller asked for the period q9 while the newest filing infers q1: the
\* search raised before any statement request
C32_Witness_CallerPeriodRaises ==
    /\ search.pc = "raised"
    /\ request.period = "q9"
    /\ context.period = "q1"
    /\ search.periods = <<"q9">>
    /\ search.fetches = <<>>

\* the first row of the last table whose account is one of account_names
MatchingRow ==
    search.statements[CHOOSE i \in DOMAIN search.statements :
        /\ \E n \in DOMAIN request.account_names :
              LowerName(search.statements[i].account_nm)
                  = LowerName(request.account_names[n])
        /\ \A j \in 1..(i - 1) :
              \A n \in DOMAIN request.account_names :
                  LowerName(search.statements[j].account_nm)
                      # LowerName(request.account_names[n])]

\* the current-period cell is absent or None, or holds the placeholder "-"
MissingOrPlaceholder(cell) == cell = NoAmount \/ cell = TextAmount(<<"-">>)

\* C33: a payload carries a number as its value, never None; when the
\* matching row of a statement has no current-period amount or a placeholder
\* in its place, that request yields no payload and the search goes on to the
\* next candidate pair, or ends with None after the last one.
C33_PayloadValueIsNumber ==
    /\ [](search.out.found =>
            /\ search.pc = "hit"
            /\ search.out.value.k = "float"
            /\ ~MissingOrPlaceholder(MatchingRow.thstrm_amount))
    /\ [][(/\ search.pc = "searching"
           /\ Len(search'.fetches) = Len(search.fetches) + 1
           /\ search'.pc # "raised"
           /\ search'.metric.found
           /\ MissingOrPlaceholder(MatchingRow.thstrm_amount)')
          => /\ ~search'.out.found
             /\ search'.pc \in {"searching", "exhausted"}
             /\ search'.pc = "searching" =>
                   <<search'.yi, search'.pi>> # <<search.yi, search.pi>>]_vars

\* the first matching row of a statement had "-" for its amount although a
\* later row had a number: no payload, and the search is at the next pair
C33_Witness_PlaceholderMovesOn ==
    /\ search.pc = "searching"
    /\ Len(search.fetches) = 1
    /\ <<search.yi, search.pi>> = <<1, 2>>
    /\ ~search.out.found
    /\ request.account_names = <<"Revenue", "Sales">>
    /\ search.statements = <<[account_nm |-> "SALES", thstrm_amount |-> TextAmount(<<"-">>)],
                             [account_nm |-> "revenue",
                              thstrm_amount |-> TextAmount(Text_1_234_500)]>>

\* positions of the rows of the last table that match account_names[n]
RowsNamed(n) ==
    {i \in DOMAIN search.statements :
        LowerName(search.statements[i].account_nm) = LowerName(request.account_names[n])}

\* C26: when the table holds rows for several of the account names, the row
\* of the name listed first in account_names is the one taken.
C26_EarliestListedNameWins ==
    (search.pc \in {"searching", "hit", "exhausted"} /\ search.metric.found) =>
        \A n \in DOMAIN request.account_names :
            RowsNamed(n) # {} =>
                \E m \in 1..n :
                    LowerName(search.metric.account_name)
                        = LowerName(request.account_names[m])

\* the pair the k-th request of a search is for: years outside, periods inside
PairAt(k) ==
    [year |-> search.years[((k - 1) \div Len(search.periods)) + 1],
     period |-> search.periods[((k - 1) % Len(search.periods)) + 1]]

C30_SearchInOrder ==
    /\ \A k \in DOMAIN search.fetches :
          /\ search.fetches[k].year = PairAt(k).year
          /\ search.fetches[k].period = PairAt(k).period
          /\ search.fetches[k].hit => (k = Len(search.fetches) /\ search.pc = "hit")
    /\ search.pc = "hit" =>
          /\ search.fetches # <<>>
          /\ search.fetches[Len(search.fetches)].hit
          /\ search.metric.found
          /\ search.metric.current_amount # NoAmount
          /\ search.out.found
          /\ search.out.value = search.metric.current_amount
          /\ search.out.tag = search.metric.account_name
          /\ search.out.fiscal_year = search.fetches[Len(search.fetches)].year
    /\ search.pc = "exhausted" =>
          /\ ~search.out.found
          /\ Len(search.fetches) = Len(search.years) * Len(search.periods)
    /\ search.pc = "searching" =>
          Len(search.fetches) < Len(search.years) * Len(search.periods)

\* C30: the candidate pairs are requested years outside and periods inside;
\* the search returns at the first pair whose matching row has a parseable
\* current amount, requests nothing after it, and returns None once every
\* pair has been requested without such a row.
C30_FirstPairWithAmountWins ==
    /\ []C30_SearchInOrder
    /\ [][search.pc \in SearchOver => search' = search]_vars

C30_Witness_HitInPreviousYear ==
    /\ search.pc = "hit"
    /\ request.year = NoYear
    /\ request.period = NoPeriod
    /\ context = [year |-> FiledYear, period |-> "annual"]
    /\ Len(search.fetches) = 6
    /\ search.out.fiscal_year = FiledYear - 1
    /\ search.out.fiscal_period = "HY"
    /\ search.out.value = FloatVal(1234500)

====
